---- MODULE Spec2Model ----
(***************************************************************************)
(* A model of @vinsjo/color-parser: the colour array builders, the         *)
(* parsers, the RGB <-> HSL conversions, the hex formatter, the name table *)
(* generator and the observable Color object.                              *)
(*                                                                         *)
(* JavaScript values are tagged records.  A number is an exact rational    *)
(* n/d in lowest terms (IEEE rounding error is not modelled); NaN,         *)
(* undefined and null are separate values; an array carries a sequence of  *)
(* values; a string carries a sequence of one-character strings.           *)
(***************************************************************************)
EXTENDS Integers, Sequences, FiniteSets, TLC

VARIABLES
    rgba,       \* Color closure: the RGB tuple
    hsla,       \* Color closure: the HSL tuple
    onChange,   \* Color closure: the subscriber (Null or a function value)
    calls,      \* the subscriber invocations made by the last operation
    last,       \* the last operation, its argument and the state it started from
    steps,      \* number of operations applied so far
    inp,        \* the argument the object was constructed from / the function input
    out,        \* the result of the pure function applied last
    pc          \* position of the harness

vars == <<rgba, hsla, onChange, calls, last, steps, inp, out, pc>>

(***************************************************************************)
(* Values                                                                  *)
(***************************************************************************)
Abs(i) == IF i < 0 THEN -i ELSE i

RECURSIVE GCD(_, _)
GCD(a, b) == IF b = 0 THEN a ELSE GCD(b, a % b)

\* the rational n/d (d # 0) in lowest terms with a positive denominator
Q(n, d) ==
    LET g == GCD(Abs(n), Abs(d))
        s == IF d < 0 THEN -1 ELSE 1
    IN  [k |-> "number", n |-> s * (n \div g), d |-> s * (d \div g)]

N(i) == [k |-> "number", n |-> i, d |-> 1]

\* The value of a statement sequence.  A source-level `const x = e` followed
\* by an expression body is written Only({body : x \in {e}}): e is computed
\* once, before the body, and x names its value.
Only(S) == CHOOSE v \in S : TRUE

NaN == [k |-> "NaN"]
Undefined == [k |-> "undefined"]
Null == [k |-> "null"]
Arr(s) == [k |-> "array", v |-> s]
Str(s) == [k |-> "string", v |-> s]
Fn(name) == [k |-> "function", v |-> name]

\* arr[i] with a zero-based index: undefined past the end
At(a, i) == IF i + 1 <= Len(a.v) THEN a.v[i + 1] ELSE Undefined

\* the i-th (zero-based) argument of a rest-parameter list
Arg(values, i) == IF i + 1 <= Len(values) THEN values[i + 1] ELSE Undefined

(***************************************************************************)
(* Arithmetic on numbers                                                   *)
(***************************************************************************)
\* an operand that is not a number makes the result NaN
Plus(a, b) ==
    IF a.k # "number" \/ b.k # "number" THEN NaN
    ELSE LET g == GCD(a.d, b.d)
         IN  Q(a.n * (b.d \div g) + b.n * (a.d \div g), (a.d \div g) * b.d)

Neg(a) == IF a.k # "number" THEN NaN ELSE [k |-> "number", n |-> -a.n, d |-> a.d]

Minus(a, b) == Plus(a, Neg(b))

Times(a, b) ==
    IF a.k # "number" \/ b.k # "number" THEN NaN
    ELSE LET g1 == GCD(Abs(a.n), b.d)
             g2 == GCD(Abs(b.n), a.d)
         IN  Q((a.n \div g1) * (b.n \div g2), (a.d \div g2) * (b.d \div g1))

\* a / b for b # 0
Over(a, b) ==
    IF a.k # "number" \/ b.k # "number" THEN NaN ELSE Times(a, Q(b.d, b.n))

\* a < b: false when an operand is NaN
Less(a, b) ==
    IF a.k # "number" \/ b.k # "number" THEN FALSE
    ELSE LET g == GCD(a.d, b.d)
         IN  a.n * (b.d \div g) < b.n * (a.d \div g)

\* a === 0
IsZero(a) == a.k = "number" /\ a.n = 0

\* !a for a number, NaN, undefined or null
Falsy(a) == a.k \in {"NaN", "undefined", "null"} \/ IsZero(a)

MathMin(a, b) ==
    IF a.k # "number" \/ b.k # "number" THEN NaN ELSE IF Less(b, a) THEN b ELSE a
MathMax(a, b) ==
    IF a.k # "number" \/ b.k # "number" THEN NaN ELSE IF Less(a, b) THEN b ELSE a
MathAbs(a) == IF a.k # "number" THEN NaN ELSE [k |-> "number", n |-> Abs(a.n), d |-> a.d]
MathFloor(a) == IF a.k # "number" THEN NaN ELSE N(a.n \div a.d)
\* Math.round: the nearest integer, halves towards +Infinity
MathRound(a) == IF a.k # "number" THEN NaN ELSE MathFloor(Plus(a, Q(1, 2)))
\* the integer part of a number, towards zero
Trunc(a) == IF a.n >= 0 THEN a.n \div a.d ELSE -((-a.n) \div a.d)
\* a % b of JavaScript for b # 0: the remainder has the sign of the dividend
Rem(a, b) ==
    IF a.k # "number" \/ b.k # "number" THEN NaN
    ELSE Minus(a, Times(b, N(Trunc(Over(a, b)))))

RECURSIVE Pow10(_)
Pow10(p) == IF p = 0 THEN 1 ELSE 10 * Pow10(p - 1)

(***************************************************************************)
(* constants (part_002 40-60)                                              *)
(***************************************************************************)
ALPHA_RANGE == 1
RGB_RANGE == <<255, 255, 255>>
HSL_RANGE == <<360, 100, 100>>
HEX_RANGE == 255
PRECISION_ALPHA == 3

DEFAULT_COLORS_RGB == Arr(<<N(0), N(0), N(0), N(ALPHA_RANGE)>>)
DEFAULT_COLORS_HSL == Arr(<<N(0), N(HSL_RANGE[2]), N(0), N(ALPHA_RANGE)>>)
DEFAULT_COLORS_HEX == <<"#", "0", "0", "0", "0", "0", "0">>

(***************************************************************************)
(* typechecking and math functions (part_002 63-147)                       *)
(***************************************************************************)
isNum(x) == x.k = "number"
isFloat(x) == x.k = "number" /\ x.d # 1
isArr(x) == x.k = "array"
isStr(x) == x.k = "string"

roundFloat(value, precision) ==
    IF ~isFloat(value) THEN value
    ELSE Over(MathRound(Times(value, N(Pow10(precision)))), N(Pow10(precision)))

\* clamp without the upper limit
clampFromBelow(value, min, max) == MathMax(value, min)

clamp(value, min, max) == MathMax(MathMin(value, max), min)

divSafe(dividend, divisor) ==
    IF Falsy(dividend) \/ Falsy(divisor) THEN N(0) ELSE Over(dividend, divisor)

map(value, inputRangeStart, inputRangeEnd, outputRangeStart, outputRangeEnd, constrainOutput) ==
    Only({IF ~constrainOutput THEN result
          ELSE clamp(result, MathMin(outputRangeStart, outputRangeEnd),
                             MathMax(outputRangeStart, outputRangeEnd)) :
          result \in {Plus(Times(divSafe(Minus(value, inputRangeStart),
                                         Minus(inputRangeEnd, inputRangeStart)),
                                 Minus(outputRangeEnd, outputRangeStart)),
                           outputRangeStart)}})

normalize(value, rangeStart, rangeEnd) ==
    map(value, rangeStart, rangeEnd, N(0), N(1), TRUE)

\* the remainder of the language in place of the euclidean one
euclideanModuloTruncated(value, max) == Rem(value, max)

euclideanModulo(value, max) == Rem(Plus(Rem(value, max), max), max)

segmentMap(value, segments, min, max) ==
    euclideanModulo(MathFloor(map(value, min, max, N(0), segments, TRUE)), segments)

(***************************************************************************)
(* helper functions and array builders (part_002 194-229)                  *)
(***************************************************************************)
replaceAtIndex(arr, value, index) ==
    IF ~isArr(arr) THEN arr
    ELSE IF index < 0 \/ index >= Len(arr.v) THEN arr
    ELSE Arr([arr.v EXCEPT ![index + 1] = value])

colorArray(a, b, c, d) ==
    LET num(v) == IF isNum(v) THEN v ELSE N(0)
    IN  Arr(<<num(a), num(b), num(c), num(d)>>)

\* RGBArray without the limits of the channels
RGBArrayUnclamped(values) ==
    LET defaultRGB == DEFAULT_COLORS_RGB
        ch(i) == IF isNum(Arg(values, i)) THEN Arg(values, i) ELSE At(defaultRGB, i)
        a == Arg(values, 3)
    IN  IF Len(values) = 0 THEN defaultRGB
        ELSE colorArray(ch(0), ch(1), ch(2),
                        IF isNum(a) /\ a # N(ALPHA_RANGE)
                        THEN clamp(a, N(0), N(ALPHA_RANGE))
                        ELSE At(defaultRGB, 3))

RGBArray(values) ==
    LET defaultRGB == DEFAULT_COLORS_RGB
        ch(i) == IF isNum(Arg(values, i))
                 THEN clamp(Arg(values, i), N(0), N(RGB_RANGE[i + 1]))
                 ELSE At(defaultRGB, i)
        a == Arg(values, 3)
    IN  IF Len(values) = 0 THEN defaultRGB
        ELSE colorArray(ch(0), ch(1), ch(2),
                        IF isNum(a) /\ a # N(ALPHA_RANGE)
                        THEN clamp(a, N(0), N(ALPHA_RANGE))
                        ELSE At(defaultRGB, 3))

\* HSLArray whose call without arguments gives a tuple of its own
HSLArrayBlank(values) ==
    LET defaultHSL == DEFAULT_COLORS_HSL
        h == Arg(values, 0)
        s == Arg(values, 1)
        l == Arg(values, 2)
        a == Arg(values, 3)
    IN  IF Len(values) = 0 THEN Arr(<<N(0), N(0), N(0), N(ALPHA_RANGE)>>)
        ELSE colorArray(
                IF isNum(h) THEN euclideanModulo(h, N(HSL_RANGE[1])) ELSE At(defaultHSL, 0),
                IF isNum(s) THEN clamp(s, N(0), N(HSL_RANGE[2])) ELSE At(defaultHSL, 1),
                IF isNum(l) THEN clamp(l, N(0), N(HSL_RANGE[3])) ELSE At(defaultHSL, 2),
                IF isNum(a) THEN clamp(a, N(0), N(ALPHA_RANGE)) ELSE At(defaultHSL, 3))

HSLArray(values) ==
    LET defaultHSL == DEFAULT_COLORS_HSL
        h == Arg(values, 0)
        s == Arg(values, 1)
        l == Arg(values, 2)
        a == Arg(values, 3)
    IN  IF Len(values) = 0 THEN defaultHSL
        ELSE colorArray(
                IF isNum(h) THEN euclideanModulo(h, N(HSL_RANGE[1])) ELSE At(defaultHSL, 0),
                IF isNum(s) THEN clamp(s, N(0), N(HSL_RANGE[2])) ELSE At(defaultHSL, 1),
                IF isNum(l) THEN clamp(l, N(0), N(HSL_RANGE[3])) ELSE At(defaultHSL, 2),
                IF isNum(a) THEN clamp(a, N(0), N(ALPHA_RANGE)) ELSE At(defaultHSL, 3))

(***************************************************************************)
(* Strings: sequences of one-character strings                             *)
(***************************************************************************)
Digits == <<"0", "1", "2", "3", "4", "5", "6", "7", "8", "9">>
HexDigits == <<"0", "1", "2", "3", "4", "5", "6", "7", "8", "9",
               "a", "b", "c", "d", "e", "f">>
UpperHex == <<"0", "1", "2", "3", "4", "5", "6", "7", "8", "9",
              "A", "B", "C", "D", "E", "F">>

\* \s of a regular expression, and the white space parseInt skips
IsWs(c) == c \in {" ", "\t", "\n"}
\* \d
IsDigit(c) == \E i \in 1..10 : Digits[i] = c
\* [\da-f] under the i flag
IsHexDigit(c) == \E i \in 1..16 : HexDigits[i] = c \/ UpperHex[i] = c
DigitVal(c) == (CHOOSE i \in 1..10 : Digits[i] = c) - 1
HexVal(c) == (CHOOSE i \in 1..16 : HexDigits[i] = c \/ UpperHex[i] = c) - 1
\* one character under the i flag
Lower(c) ==
    IF \E i \in 11..16 : UpperHex[i] = c
    THEN HexDigits[CHOOSE i \in 11..16 : UpperHex[i] = c]
    ELSE IF c = "R" THEN "r" ELSE IF c = "G" THEN "g"
    ELSE IF c = "H" THEN "h" ELSE IF c = "S" THEN "s"
    ELSE IF c = "L" THEN "l" ELSE c

\* str.substring(from, to) with zero-based, in-range-clipped bounds
Substring(s, from, to) ==
    LET e == IF to > Len(s) THEN Len(s) ELSE to
    IN  IF from >= e THEN <<>> ELSE [i \in 1..(e - from) |-> s[from + i]]

\* the characters of s from position p (one-based) up to, not including, q
Slice(s, p, q) == Substring(s, p - 1, q - 1)

\* str.replace(c, ''): the first occurrence of the character removed
ReplaceFirst(s, c) ==
    IF \E i \in 1..Len(s) : s[i] = c
    THEN LET i == CHOOSE i \in 1..Len(s) : s[i] = c /\ \A j \in 1..(i - 1) : s[j] # c
         IN  Slice(s, 1, i) \o Slice(s, i + 1, Len(s) + 1)
    ELSE s

(***************************************************************************)
(* Regular expressions.  A pattern is a sequence of tokens: a character    *)
(* class repeated min..max times (or without limit), or a group (named or  *)
(* not) repeated min..max times.  Exec follows every way the pattern can   *)
(* match: a state is the position reached and the named groups captured.   *)
(* All PATTERNS are anchored at both ends (^...$) and carry the i flag.    *)
(***************************************************************************)
Cls(c, min, max) ==
    [t |-> "cls", c |-> c, min |-> min, max |-> max, many |-> FALSE,
     name |-> "", body |-> <<>>]
Chr(c) == Cls(c, 1, 1)
Star(c) == [Cls(c, 0, 0) EXCEPT !.many = TRUE]
OneOrMore(c) == [Cls(c, 1, 1) EXCEPT !.many = TRUE]
Grp(name, body, min, max) ==
    [t |-> "grp", c |-> "", min |-> min, max |-> max, many |-> FALSE,
     name |-> name, body |-> body]

ClassOk(c, ch) ==
    CASE c = "\\s" -> IsWs(ch)
      [] c = "\\d" -> IsDigit(ch)
      [] c = "[\\da-f]" -> IsHexDigit(ch)
      [] OTHER -> Lower(ch) = c

\* how many characters of class c follow position p, counted up to limit
RECURSIVE Run(_, _, _, _, _)
Run(s, p, c, n, limit) ==
    IF n < limit /\ p + n <= Len(s) /\ ClassOk(c, s[p + n])
    THEN Run(s, p, c, n + 1, limit) ELSE n

StepCls(tok, s, S) ==
    UNION {{[st EXCEPT !.p = @ + j] :
                j \in tok.min..Run(s, st.p, tok.c, 0,
                                   IF tok.many THEN Len(s) ELSE tok.max)} : st \in S}

Captured(name, from, st) ==
    IF name = "" THEN st ELSE [st EXCEPT !.g = (name :> <<from, st.p>>) @@ @]

RECURSIVE Exec(_, _, _, _)
RECURSIVE Iterate(_, _, _, _)

\* one more repetition of the group tok from each state of S
Once(tok, s, S) ==
    UNION {{Captured(tok.name, st.p, st2) : st2 \in Exec(tok.body, 1, s, {st})} : st \in S}

\* S holds the states after n repetitions of the group tok
Iterate(tok, s, S, n) ==
    (IF n >= tok.min THEN S ELSE {})
    \cup (IF n < tok.max /\ S # {} THEN Iterate(tok, s, Once(tok, s, S), n + 1) ELSE {})

Step(tok, s, S) ==
    IF tok.t = "cls" THEN StepCls(tok, s, S) ELSE Iterate(tok, s, S, 0)

Exec(pat, i, s, S) ==
    IF i > Len(pat) \/ S = {} THEN S ELSE Exec(pat, i + 1, s, Step(pat[i], s, S))

\* the ways pat matches the whole of s
Matches(pat, s) == {st \in Exec(pat, 1, s, {[p |-> 1, g |-> <<>>]}) : st.p = Len(s) + 1}

\* str.match(pattern): null, or the match with its named groups
StrMatch(s, pat) ==
    LET pick(M) == IF M = {} THEN Null
                   ELSE [k |-> "match", input |-> s, g |-> (CHOOSE st \in M : TRUE).g]
    IN  pick(Matches(pat, s))

\* match.groups.<name>
Group(m, name) ==
    IF name \in DOMAIN m.g
    THEN Str(Slice(m.input, m.g[name][1], m.g[name][2]))
    ELSE Undefined

\* (?<name>\d{1,maxInt}(\.\d+)?)
NumGroup(name, maxInt) ==
    Grp(name, <<Cls("\\d", 1, maxInt),
                Grp("", <<Chr("."), OneOrMore("\\d")>>, 0, 1)>>, 1, 1)

\* ^\s*<f>(a)?\(\s*(?<r>..)\s*,\s*(?<g>..)\s*,\s*(?<b>..)\s*(,\s*(?<a>..))?\s*\)\s*$
Functional(f) ==
    <<Star("\\s"), Chr(f[1]), Chr(f[2]), Chr(f[3]), Grp("", <<Chr("a")>>, 0, 1), Chr("("),
      Star("\\s"), NumGroup("r", 3), Star("\\s"), Chr(","),
      Star("\\s"), NumGroup("g", 3), Star("\\s"), Chr(","),
      Star("\\s"), NumGroup("b", 3), Star("\\s"),
      Grp("", <<Chr(","), Star("\\s"), NumGroup("a", 1)>>, 0, 1),
      Star("\\s"), Chr(")"), Star("\\s")>>

\* part_002 45-49
PATTERNS ==
    [RGB |-> Functional(<<"r", "g", "b">>),
     HSL |-> Functional(<<"h", "s", "l">>),
     HEX |-> <<Star("\\s"), Cls("#", 0, 1),
               Grp("", <<Cls("[\\da-f]", 3, 3)>>, 1, 2),
               Grp("", <<Cls("[\\da-f]", 2, 2)>>, 0, 1),
               Star("\\s")>>]

\* PATTERNS[key].test(str)
PatternTest(key, s) == Matches(PATTERNS[key], s) # {}

Type(t) == [k |-> "type", v |-> t]

\* part_002 79-85: the keys are tried in the order RGB, HSL, HEX
colorTest(str) ==
    IF ~isStr(str) THEN Null
    ELSE IF PatternTest("RGB", str.v) THEN Type("RGB")
    ELSE IF PatternTest("HSL", str.v) THEN Type("HSL")
    ELSE IF PatternTest("HEX", str.v) THEN Type("HEX")
    ELSE Null

(***************************************************************************)
(* parseFloat and parseInt(_, 16) on the strings the patterns hand them    *)
(***************************************************************************)
RECURSIVE DecValue(_, _)
DecValue(s, n) == IF n = 0 THEN 0 ELSE 10 * DecValue(s, n - 1) + DigitVal(s[n])

RECURSIVE HexValue(_, _)
HexValue(s, n) == IF n = 0 THEN 0 ELSE 16 * HexValue(s, n - 1) + HexVal(s[n])

\* parseFloat of undefined, or of digits with an optional fraction
parseFloat(x) ==
    LET value(s, i, f) ==
            IF i = 0 THEN NaN
            ELSE Plus(N(DecValue(s, i)),
                      Q(DecValue(Substring(s, i + 1, i + 1 + f), f), Pow10(f)))
        fraction(s, i) ==
            value(s, i, IF i + 1 <= Len(s) /\ s[i + 1] = "."
                        THEN Run(s, i + 2, "\\d", 0, Len(s)) ELSE 0)
    IN  IF ~isStr(x) THEN NaN ELSE fraction(x.v, Run(x.v, 1, "\\d", 0, Len(x.v)))

\* parseInt(s, 16) of white space and hex digits: leading white space is
\* skipped and the longest run of digits is read; none gives NaN
parseInt16(s) ==
    LET read(p, n) == IF n = 0 THEN NaN ELSE N(HexValue(Substring(s, p, p + n), n))
        digits(p) == read(p, Run(s, p + 1, "[\\da-f]", 0, Len(s)))
    IN  digits(Run(s, 1, "\\s", 0, Len(s)))

(***************************************************************************)
(* parsing (part_002 232-274)                                              *)
(***************************************************************************)
parseRGB(rgbStr) ==
    LET build(match) ==
            IF match = Null THEN Null
            ELSE RGBArray(<<parseFloat(Group(match, "r")), parseFloat(Group(match, "g")),
                            parseFloat(Group(match, "b")), parseFloat(Group(match, "a"))>>)
    IN  IF ~isStr(rgbStr) THEN Null ELSE build(StrMatch(rgbStr.v, PATTERNS.RGB))

\* the numbers parseHEX reads: hex is cut into pieces of hexValLength
RECURSIVE HexPieces(_, _, _)
HexPieces(hex, i, hexValLength) ==
    IF i >= Len(hex) THEN <<>>
    ELSE LET v == Substring(hex, i, i + hexValLength)
         IN  <<parseInt16(IF hexValLength = 2 THEN v ELSE v \o v)>>
             \o HexPieces(hex, i + hexValLength, hexValLength)

\* matches[0] is the whole of hexStr: the pattern is anchored at both ends
parseHEX(hexStr) ==
    LET build(values) ==
            RGBArray(<<Arg(values, 0), Arg(values, 1), Arg(values, 2),
                       IF isNum(Arg(values, 3))
                       THEN map(Arg(values, 3), N(0), N(HEX_RANGE), N(0), N(ALPHA_RANGE), FALSE)
                       ELSE Arg(values, 3)>>)
        read(hex) == build(HexPieces(hex, 0, IF Len(hex) % 2 = 0 THEN 2 ELSE 1))
    IN  IF ~isStr(hexStr) THEN Null
        ELSE IF StrMatch(hexStr.v, PATTERNS.HEX) = Null THEN Null
        ELSE read(ReplaceFirst(hexStr.v, "#"))

parseHSL(hslStr) ==
    LET build(match) ==
            IF match = Null THEN Null
            ELSE HSLArray(<<parseFloat(Group(match, "h")), parseFloat(Group(match, "s")),
                            parseFloat(Group(match, "l")), parseFloat(Group(match, "a"))>>)
    IN  IF ~isStr(hslStr) THEN Null ELSE build(StrMatch(hslStr.v, PATTERNS.HSL))

(***************************************************************************)
(* The name table: prebuild.js turns a name -> hex dataset into            *)
(* src/css-colors.ts                                                       *)
(***************************************************************************)
PrebuildMap(value, start1, end1, start2, end2) ==
    clamp(Plus(Times(divSafe(Minus(value, start1), Minus(end1, start1)),
                     Minus(end2, start2)), start2),
          MathMin(start2, end2), MathMax(start2, end2))

\* prebuild.js 24-43: h, s, l from the mapped channels
PrebuildHSLOf(r, g, b, cmin, cmax) ==
    LET hsl(delta, l) ==
            Only({Arr(<<MathRound(PrebuildMap(h, N(0), N(6), N(0), N(360))),
                        MathRound(PrebuildMap(s, N(0), N(1), N(0), N(100))),
                        MathRound(PrebuildMap(l, N(0), N(1), N(0), N(100))), N(1)>>) :
                  h \in {IF cmax = r THEN Rem(divSafe(Minus(g, b), delta), N(6))
                         ELSE IF cmax = g THEN Plus(divSafe(Minus(b, r), delta), N(2))
                         ELSE Plus(divSafe(Minus(r, g), delta), N(4))},
                  s \in {divSafe(delta,
                                 Minus(N(1), MathAbs(Minus(Times(N(2), l), N(1)))))}})
    IN  Only({hsl(delta, l) : delta \in {Minus(cmax, cmin)},
                              l \in {divSafe(Plus(cmax, cmin), N(2))}})

\* prebuild.js RGBToHSL
PrebuildRGBToHSL(rgb) ==
    LET minmax(r, g, b) ==
            Only({PrebuildHSLOf(r, g, b, cmin, cmax) :
                  cmin \in {MathMin(MathMin(r, g), b)},
                  cmax \in {MathMax(MathMax(r, g), b)}})
    IN  IF Len(rgb) = 0 THEN Arr(<<N(0), N(100), N(0), N(1)>>)
        ELSE Only({minmax(r, g, b) :
                   r \in {PrebuildMap(Arg(rgb, 0), N(0), N(255), N(0), N(1))},
                   g \in {PrebuildMap(Arg(rgb, 1), N(0), N(255), N(0), N(1))},
                   b \in {PrebuildMap(Arg(rgb, 2), N(0), N(255), N(0), N(1))}})

\* prebuild.js parseHEX
PrebuildParseHEX(hexStr) ==
    LET build(values) ==
            Arr(<<MathRound(Arg(values, 0)), MathRound(Arg(values, 1)),
                  MathRound(Arg(values, 2)), N(1)>>)
        read(hex) == build(HexPieces(hex, 0, IF Len(hex) % 2 = 0 THEN 2 ELSE 1))
    IN  IF ~isStr(hexStr) THEN Null
        ELSE IF StrMatch(hexStr.v, PATTERNS.HEX) = Null THEN Null
        ELSE read(ReplaceFirst(hexStr.v, "#"))

\* entries of node_modules/css-color-names/css-color-names.json
colorNames ==
    <<  <<Str(<<"b", "l", "a", "c", "k">>), Str(<<"#", "0", "0", "0", "0", "0", "0">>)>>,
        <<Str(<<"r", "e", "d">>), Str(<<"#", "f", "f", "0", "0", "0", "0">>)>>,
        <<Str(<<"t", "a", "n">>), Str(<<"#", "d", "2", "b", "4", "8", "c">>)>>,
        <<Str(<<"n", "a", "v", "y">>), Str(<<"#", "0", "0", "0", "0", "8", "0">>)>>  >>

\* prebuild.js 71-76: the reducer's step for one key
TableEntry(colors, key, parsed) ==
    IF parsed = Null THEN colors
    ELSE Append(colors, <<key, Arr(<<parsed, PrebuildRGBToHSL(parsed.v)>>)>>)

\* the generated table: key -> [parsed, RGBToHSL(...parsed)]
RECURSIVE cssColorsFrom(_)
cssColorsFrom(n) ==
    IF n = 0 THEN <<>>
    ELSE Only({TableEntry(colors, colorNames[n][1], parsed) :
               colors \in {cssColorsFrom(n - 1)},
               parsed \in {PrebuildParseHEX(colorNames[n][2])}})

cssColors == cssColorsFrom(Len(colorNames))

\* Object.prototype.hasOwnProperty.call(cssColors, key)
hasOwnProperty(table, key) == \E i \in 1..Len(table) : table[i][1] = key
\* cssColors[key]
Lookup(table, key) == table[CHOOSE i \in 1..Len(table) : table[i][1] = key][2]

(***************************************************************************)
(* parseColor (part_002 276-293): the pair [parsed, type]                  *)
(***************************************************************************)
parseColor(colorStr) ==
    LET switch(type) ==
            IF type = Type("RGB") THEN <<parseRGB(colorStr), Type("RGB")>>
            ELSE IF type = Type("HSL") THEN <<parseHSL(colorStr), Type("RGB")>>
            ELSE IF type = Type("HEX") THEN <<parseHEX(colorStr), Type("RGB")>>
            ELSE <<Null, Null>>
    IN  IF hasOwnProperty(cssColors, colorStr)
        THEN <<Lookup(cssColors, colorStr), Type("RGB")>>
        ELSE Only({switch(type) : type \in {colorTest(colorStr)}})

(***************************************************************************)
(* round, map (part_002 297-325)                                           *)
(***************************************************************************)
roundCA(values, type) ==
    LET round(built) ==
            colorArray(MathRound(At(built, 0)), MathRound(At(built, 1)),
                       MathRound(At(built, 2)),
                       roundFloat(At(built, 3), PRECISION_ALPHA))
    IN  IF Len(values) = 0
        THEN (IF type = "HSL" THEN DEFAULT_COLORS_HSL ELSE DEFAULT_COLORS_RGB)
        ELSE Only({round(built) :
                   built \in {IF type = "HSL" THEN HSLArray(values) ELSE RGBArray(values)}})

roundRGB(values) == roundCA(values, "RGB")

mapRGB(rgba_, low, high) ==
    LET mapped(c) ==
            colorArray(map(At(c, 0), N(0), N(RGB_RANGE[1]), low, high, FALSE),
                       map(At(c, 1), N(0), N(RGB_RANGE[2]), low, high, FALSE),
                       map(At(c, 2), N(0), N(RGB_RANGE[3]), low, high, FALSE),
                       map(At(c, 3), N(0), N(ALPHA_RANGE), low, high, FALSE))
    IN  IF ~isArr(rgba_) THEN RGBArray(<<low, low, low, N(ALPHA_RANGE)>>)
        ELSE IF Len(rgba_.v) = 0 THEN RGBArray(<<low, low, low, N(ALPHA_RANGE)>>)
        ELSE Only({mapped(c) : c \in {RGBArray(rgba_.v)}})

(***************************************************************************)
(* conversion (part_002 441-540)                                           *)
(***************************************************************************)
\* part_002 447-466: hue, saturation and lightness from the mapped channels
HSLOf(r, g, b, alpha, cmin, cmax) ==
    LET hsl(delta, l) ==
            Only({HSLArray(<<map(h, N(0), N(6), N(0), N(HSL_RANGE[1]), FALSE),
                             map(s, N(0), N(1), N(0), N(HSL_RANGE[2]), FALSE),
                             map(l, N(0), N(1), N(0), N(HSL_RANGE[3]), FALSE), alpha>>) :
                  h \in {IF cmax = r THEN Rem(divSafe(Minus(g, b), delta), N(6))
                         ELSE IF cmax = g THEN Plus(divSafe(Minus(b, r), delta), N(2))
                         ELSE Plus(divSafe(Minus(r, g), delta), N(4))},
                  s \in {divSafe(delta,
                                 Minus(N(1), MathAbs(Minus(Times(N(2), l), N(1)))))}})
    IN  Only({hsl(delta, l) : delta \in {Minus(cmax, cmin)},
                              l \in {divSafe(Plus(cmax, cmin), N(2))}})

RGBToHSL(values) ==
    LET minmax(r, g, b, alpha) ==
            Only({HSLOf(r, g, b, alpha, cmin, cmax) :
                  cmin \in {MathMin(MathMin(r, g), b)},
                  cmax \in {MathMax(MathMax(r, g), b)}})
    IN  IF Len(values) = 0 THEN DEFAULT_COLORS_HSL
        ELSE Only({minmax(At(m, 0), At(m, 1), At(m, 2), At(m, 3)) :
                   m \in {mapRGB(Arr(values), N(0), N(1))}})

\* Number.prototype.toString(16) of a non-negative integer
RECURSIVE ToString16(_)
ToString16(i) ==
    IF i < 16 THEN <<HexDigits[i + 1]>>
    ELSE Append(ToString16(i \div 16), HexDigits[(i % 16) + 1])

\* part_002 479-483: one element of hexValues
HexByte(v) ==
    LET double(hex) == IF Len(hex) = 2 THEN hex ELSE hex \o hex
    IN  IF ~isNum(v) THEN <<>> ELSE Only({double(hex) : hex \in {ToString16(v.n)}})

RGBToHEX(values) ==
    LET join(c) ==
            Str(<<"#">> \o HexByte(At(c, 0)) \o HexByte(At(c, 1)) \o HexByte(At(c, 2))
                \o HexByte(IF At(c, 3) # N(ALPHA_RANGE)
                           THEN MathRound(map(At(c, 3), N(0), N(ALPHA_RANGE),
                                              N(0), N(HEX_RANGE), TRUE))
                           ELSE Str(<<>>)))
    IN  IF Len(values) = 0 THEN Str(DEFAULT_COLORS_HEX)
        ELSE Only({join(c) : c \in {roundRGB(values)}})

\* part_002 498-539: the channels of hue segment hueSegment
SegmentRGB(hueSegment, c, x, m, alpha) ==
    LET rgb == CASE hueSegment = 0 -> <<c, x, N(0)>>
                 [] hueSegment = 1 -> <<x, c, N(0)>>
                 [] hueSegment = 2 -> <<N(0), c, x>>
                 [] hueSegment = 3 -> <<N(0), x, c>>
                 [] hueSegment = 4 -> <<x, N(0), c>>
                 [] hueSegment = 5 -> <<c, N(0), x>>
                 [] OTHER -> <<N(0), N(0), N(0)>>
    IN  RGBArray(<<map(Plus(rgb[1], m), N(0), N(1), N(0), N(RGB_RANGE[1]), FALSE),
                   map(Plus(rgb[2], m), N(0), N(1), N(0), N(RGB_RANGE[2]), FALSE),
                   map(Plus(rgb[3], m), N(0), N(1), N(0), N(RGB_RANGE[3]), FALSE),
                   alpha>>)

\* Chroma with m = l - c in place of m = l - c / 2
ChromaWhole(h, l, alpha, c) ==
    Only({SegmentRGB(hueSegment, c, x, m, alpha) :
          x \in {IF Falsy(h) THEN N(0)
                 ELSE Times(c, Minus(N(1),
                        MathAbs(Minus(Rem(Over(h, Over(N(HSL_RANGE[1]), N(6))), N(2)),
                                      N(1)))))},
          m \in {IF Falsy(c) THEN l ELSE Minus(l, c)},
          hueSegment \in {segmentMap(h, N(6), N(0), N(HSL_RANGE[1])).n}})

\* part_002 493-499: x, m and the hue segment from the chroma c
Chroma(h, l, alpha, c) ==
    Only({SegmentRGB(hueSegment, c, x, m, alpha) :
          x \in {IF Falsy(h) THEN N(0)
                 ELSE Times(c, Minus(N(1),
                        MathAbs(Minus(Rem(Over(h, Over(N(HSL_RANGE[1]), N(6))), N(2)),
                                      N(1)))))},
          m \in {IF Falsy(c) THEN l ELSE Minus(l, Over(c, N(2)))},
          hueSegment \in {segmentMap(h, N(6), N(0), N(HSL_RANGE[1])).n}})

HSLToRGB(values) ==
    LET chroma(h, s, l, alpha) ==
            Only({Chroma(h, l, alpha, c) :
                  c \in {Times(Minus(N(1), MathAbs(Minus(Times(N(2), l), N(1)))), s)}})
        unpack(hsl) ==
            Only({chroma(At(hsl, 0), s, l, At(hsl, 3)) :
                  s \in {normalize(At(hsl, 1), N(0), N(HSL_RANGE[2]))},
                  l \in {normalize(At(hsl, 2), N(0), N(HSL_RANGE[3]))}})
    IN  IF Len(values) = 0 THEN DEFAULT_COLORS_RGB
        ELSE Only({unpack(hsl) : hsl \in {HSLArray(values)}})

(***************************************************************************)
(* combine color arrays (part_002 357-383)                                 *)
(***************************************************************************)
\* one element of combined when the alpha is combined like a channel
CombineAtAlphaToo(base, c2, operator, i) ==
    IF ~isNum(At(c2, i)) THEN At(base, i)
    ELSE CASE operator = "+" -> Plus(At(base, i), At(c2, i))
           [] operator = "-" -> Minus(At(base, i), At(c2, i))
           [] operator = "*" -> Times(At(base, i), At(c2, i))
           [] operator = "/" -> divSafe(At(base, i), At(c2, i))

\* part_002 366-381: one element of combined
CombineAt(base, c2, operator, i) ==
    IF i = 3 THEN At(base, i)
    ELSE IF ~isNum(At(c2, i)) THEN At(base, i)
    ELSE CASE operator = "+" -> Plus(At(base, i), At(c2, i))
           [] operator = "-" -> Minus(At(base, i), At(c2, i))
           [] operator = "*" -> Times(At(base, i), At(c2, i))
           [] operator = "/" -> divSafe(At(base, i), At(c2, i))

\* combineCA handing every operand it returns to the array builder
combineCANormalising(c1, c2, operator, colorType) ==
    LET arrFn(v) == IF colorType = "HSL" THEN HSLArray(v) ELSE RGBArray(v)
        combined(base) == <<CombineAt(base, c2, operator, 0), CombineAt(base, c2, operator, 1),
                            CombineAt(base, c2, operator, 2), CombineAt(base, c2, operator, 3)>>
    IN  IF ~isArr(c1) THEN (IF isArr(c2) THEN arrFn(c2.v) ELSE arrFn(<<>>))
        ELSE IF ~isArr(c2) THEN arrFn(c1.v)
        ELSE IF operator \notin {"+", "-", "*", "/"} THEN arrFn(c1.v)
        ELSE Only({arrFn(combined(base)) : base \in {arrFn(c1.v)}})

combineCA(c1, c2, operator, colorType) ==
    LET arrFn(v) == IF colorType = "HSL" THEN HSLArray(v) ELSE RGBArray(v)
        combined(base) == <<CombineAt(base, c2, operator, 0), CombineAt(base, c2, operator, 1),
                            CombineAt(base, c2, operator, 2), CombineAt(base, c2, operator, 3)>>
    IN  IF ~isArr(c1) THEN (IF isArr(c2) THEN c2 ELSE arrFn(<<>>))
        ELSE IF ~isArr(c2) THEN c1
        ELSE IF operator \notin {"+", "-", "*", "/"} THEN c1
        ELSE Only({arrFn(combined(base)) : base \in {arrFn(c1.v)}})

(***************************************************************************)
(* Color (part_002 576-715).  The closure variables are rgba, hsla and     *)
(* onChange.  Every closure function is an operator on the current state   *)
(* that gives the next rgba and hsla and the subscriber calls it made;     *)
(* a call records its two arguments and the closure state at the call.     *)
(***************************************************************************)
\* Color with the two defaults of a failed parse exchanged
ColorDefaultsSwapped(colorStr) ==
    LET init(parsed, type) ==
            IF type = Null \/ parsed = Null THEN <<HSLArray(<<>>), RGBArray(<<>>)>>
            ELSE IF type = Type("HSL") THEN <<HSLToRGB(parsed.v), parsed>>
            ELSE <<parsed, RGBToHSL(parsed.v)>>
    IN  Only({init(p[1], p[2]) : p \in {parseColor(colorStr)}})

\* the constructor's initialisation of [rgba, hsla]
Color(colorStr) ==
    LET init(parsed, type) ==
            IF type = Null \/ parsed = Null THEN <<RGBArray(<<>>), HSLArray(<<>>)>>
            ELSE IF type = Type("HSL") THEN <<HSLToRGB(parsed.v), parsed>>
            ELSE <<parsed, RGBToHSL(parsed.v)>>
    IN  Only({init(p[1], p[2]) : p \in {parseColor(colorStr)}})

\* a === b for the values a setter compares
StrictEq(a, b) == a = b /\ a.k # "NaN"

Unchanged == [rgba |-> rgba, hsla |-> hsla, calls |-> <<>>]

\* rgba and hsla assigned r and h, then onChange && onChange(rgba, hsla)
Assigned(r, h) ==
    [rgba |-> r, hsla |-> h,
     calls |-> IF onChange = Null THEN <<>>
               ELSE <<[fn |-> onChange, args |-> <<r, h>>, seen |-> <<r, h>>]>>]

\* part_002 589: [r, g, b, a].map((v, i) => (isNum(v) ? v : current[i]))
Merged(values, current) ==
    LET pick(v, cur) == IF isNum(v) THEN v ELSE cur
    IN  <<pick(At(values, 0), At(current, 0)), pick(At(values, 1), At(current, 1)),
          pick(At(values, 2), At(current, 2)), pick(At(values, 3), At(current, 3))>>

setRGB(values) ==
    LET assign(r) == Only({Assigned(r, h) : h \in {HSLArray(r.v)}})
        compare(m) ==
            IF \A i \in 0..3 : StrictEq(m[i + 1], At(rgba, i)) THEN Unchanged
            ELSE Only({assign(r) : r \in {RGBArray(m)}})
    IN  IF ~isArr(values) THEN Unchanged
        ELSE IF Len(values.v) = 0 THEN Unchanged
        ELSE Only({compare(m) : m \in {Merged(values, rgba)}})

setHSL(values) ==
    LET assign(h) == Only({Assigned(r, h) : r \in {HSLToRGB(h.v)}})
        compare(m) ==
            IF \A i \in 0..3 : StrictEq(m[i + 1], At(hsla, i)) THEN Unchanged
            ELSE Only({assign(h) : h \in {HSLArray(m)}})
    IN  IF ~isArr(values) THEN Unchanged
        ELSE IF Len(values.v) = 0 THEN Unchanged
        ELSE Only({compare(m) : m \in {Merged(values, hsla)}})

setHEX(hexStr) ==
    LET set(parsed) == IF parsed = Null THEN Unchanged ELSE setRGB(parsed)
    IN  Only({set(parsed) : parsed \in {parseHEX(hexStr)}})

\* add, sub, mult, div: op is the operator the method was created with
modify(op, color, colorType) ==
    IF colorType = Type("HSL")
    THEN Only({setHSL(c) : c \in {combineCA(hsla, color, op, "HSL")}})
    ELSE Only({setRGB(c) : c \in {combineCA(rgba, color, op, "RGB")}})

replaceHSL(value, index) ==
    IF ~isNum(value) \/ index < 0 \/ index > 3 THEN Unchanged
    ELSE Only({setHSL(c) : c \in {replaceAtIndex(hsla, value, index)}})

replaceRGB(value, index) ==
    IF ~isNum(value) \/ index < 0 \/ index > 3 THEN Unchanged
    ELSE Only({setRGB(c) : c \in {replaceAtIndex(hsla, value, index)}})

\* the argument of the replace call each channel setter makes
SetterIndex ==
    [red |-> 0, green |-> 1, blue |-> 2, alpha |-> 3,
     hue |-> 0, saturation |-> 0, lightness |-> 0]

\* the hex getter
getHex == RGBToHEX(rgba.v)

\* the onChange getter: onChange || undefined
getOnChange == IF onChange = Null THEN Undefined ELSE onChange

(***************************************************************************)
(* toString functions, invertRGB, and the methods that construct a new     *)
(* Color from the RGB string of this one (part_002 346-350, 556-561,       *)
(* 697-700)                                                                *)
(***************************************************************************)
\* String(i) of a non-negative integer
RECURSIVE ToString10(_)
ToString10(i) ==
    IF i < 10 THEN <<Digits[i + 1]>>
    ELSE Append(ToString10(i \div 10), Digits[(i % 10) + 1])

\* String(x) of a non-negative number of at most three decimals, which is
\* what roundRGB leaves
NumberToString(x) ==
    LET decimals(t) ==
            SubSeq(<<Digits[(t \div 100) + 1], Digits[((t \div 10) % 10) + 1],
                     Digits[(t % 10) + 1]>>,
                   1, IF t % 10 # 0 THEN 3 ELSE IF t % 100 # 0 THEN 2 ELSE 1)
    IN  IF x.d = 1 THEN ToString10(x.n)
        ELSE ToString10(x.n \div x.d) \o <<".">>
                \o decimals(((x.n * 1000) \div x.d) % 1000)

RGBToString(values) ==
    LET text(c) ==
            IF At(c, 3) # N(ALPHA_RANGE)
            THEN Str(<<"r", "g", "b", "a", "(">> \o NumberToString(At(c, 0)) \o <<",">>
                     \o NumberToString(At(c, 1)) \o <<",">> \o NumberToString(At(c, 2))
                     \o <<",">> \o NumberToString(At(c, 3)) \o <<")">>)
            ELSE Str(<<"r", "g", "b", "(">> \o NumberToString(At(c, 0)) \o <<",">>
                     \o NumberToString(At(c, 1)) \o <<",">> \o NumberToString(At(c, 2))
                     \o <<")">>)
    IN  Only({text(c) : c \in {roundRGB(values)}})

invertRGB(rgba_) ==
    LET invert(c) ==
            colorArray(Minus(N(RGB_RANGE[1]), At(c, 0)), Minus(N(RGB_RANGE[2]), At(c, 1)),
                       Minus(N(RGB_RANGE[3]), At(c, 2)), At(c, 3))
    IN  Only({invert(c) : c \in {RGBArray(rgba_)}})

\* inverted() and clone() of the Color whose RGB tuple is r: the [rgba, hsla]
\* of the new Color
inverted(r) == Only({Color(RGBToString(i.v)) : i \in {invertRGB(r.v)}})
clone(r) == Color(RGBToString(r.v))

(***************************************************************************)
(* The Color object as a state machine                                     *)
(***************************************************************************)
MaxSteps == 2

S_red_hex == Str(<<"#", "f", "f", "0", "0", "0", "0">>)
S_red == Str(<<"r", "e", "d">>)
S_notacolor == Str(<<"n", "o", "t", "a", "c", "o", "l", "o", "r">>)
S_rgba == Str(<<"r", "g", "b", "a", "(", "1", "0", ",", "2", "0", ",", "3", "0", ",",
                "0", ".", "5", ")">>)
S_hsl == Str(<<"h", "s", "l", "(", "1", "2", "0", ",", "1", "0", "0", ",", "5", "0", ")">>)
S_abc == Str(<<"#", "a", "b", "c">>)

\* what the constructor is called with
CtorInputs == {S_red_hex, S_red, S_notacolor, S_rgba, S_hsl, S_abc}

\* what each channel setter is assigned
ChannelInputs ==
    [red |-> {N(10), N(300)}, green |-> {N(10), NaN}, blue |-> {N(10)},
     alpha |-> {Q(1, 2), Undefined},
     hue |-> {N(0), N(120), N(480)}, saturation |-> {N(50)}, lightness |-> {N(25)}]

\* what rgb=, hsl= and hex= are assigned
RgbInputs == {Arr(<<N(300), N(0), N(0), N(1)>>), Arr(<<N(0), N(255), N(0), N(1)>>),
              Arr(<<Undefined, N(5)>>), Arr(<<Undefined>>), Arr(<<>>)}
HslInputs == {Arr(<<N(360), N(100), N(50), N(1)>>), Arr(<<NaN, N(40)>>),
              Str(<<"z", "z">>)}
HexInputs == {Str(<<"#", "0", "0", "f">>), Str(<<"z", "z">>)}

\* the arguments of add, sub, mult and div
ModifyInputs ==
    {<<"+", Arr(<<N(10), N(10), N(10), N(1)>>), Undefined>>,
     <<"+", Arr(<<N(10), N(10), N(10), N(1)>>), Type("HSL")>>,
     <<"-", Arr(<<N(20), N(0), N(300), Q(1, 2)>>), Undefined>>,
     <<"*", Arr(<<N(2), N(2), N(2), N(1)>>), Type("HSL")>>,
     <<"/", Arr(<<N(5), N(0), N(5), N(1)>>), Undefined>>,
     <<"/", Undefined, Type("HSL")>>}

\* what onChange is assigned
OnChangeInputs == {Fn("f"), Fn("g"), Undefined}

OpRecord(op, arg, type) ==
    [op |-> op, arg |-> arg, type |-> type,
     rgba |-> rgba, hsla |-> hsla, onChange |-> onChange]

\* new Color(s) left the closure in state c
Constructed(s, c) ==
    /\ inp = s
    /\ rgba = c[1]
    /\ hsla = c[2]
    /\ onChange = Null
    /\ calls = <<>>
    /\ last = [op |-> "Color", arg |-> s, type |-> Undefined,
               rgba |-> Undefined, hsla |-> Undefined, onChange |-> Null]
    /\ steps = 0
    /\ out = Undefined
    /\ pc = "Color"

Init == \E s \in CtorInputs : Constructed(s, Color(s))

\* one call of a method or setter that ended with the closure state r
Apply(op, arg, type, r) ==
    /\ steps < MaxSteps
    /\ rgba' = r.rgba
    /\ hsla' = r.hsla
    /\ calls' = r.calls
    /\ last' = OpRecord(op, arg, type)
    /\ steps' = steps + 1
    /\ UNCHANGED <<onChange, inp, out, pc>>

SetRed == \E v \in ChannelInputs.red :
    Apply("red", v, Undefined, replaceRGB(v, SetterIndex.red))
SetGreen == \E v \in ChannelInputs.green :
    Apply("green", v, Undefined, replaceRGB(v, SetterIndex.green))
SetBlue == \E v \in ChannelInputs.blue :
    Apply("blue", v, Undefined, replaceRGB(v, SetterIndex.blue))
SetAlpha == \E v \in ChannelInputs.alpha :
    Apply("alpha", v, Undefined, replaceRGB(v, SetterIndex.alpha))
SetHue == \E v \in ChannelInputs.hue :
    Apply("hue", v, Undefined, replaceHSL(v, SetterIndex.hue))
SetSaturation == \E v \in ChannelInputs.saturation :
    Apply("saturation", v, Undefined, replaceHSL(v, SetterIndex.saturation))
SetLightness == \E v \in ChannelInputs.lightness :
    Apply("lightness", v, Undefined, replaceHSL(v, SetterIndex.lightness))
SetRgb == \E v \in RgbInputs : Apply("rgb", v, Undefined, setRGB(v))
SetHsl == \E v \in HslInputs : Apply("hsl", v, Undefined, setHSL(v))
SetHex == \E v \in HexInputs : Apply("hex", v, Undefined, setHEX(v))
Modify == \E m \in ModifyInputs : Apply(m[1], m[2], m[3], modify(m[1], m[2], m[3]))

\* an assignment to onChange that keeps the subscriber already stored
SetOnChangeKeepsFirst == \E cb \in OnChangeInputs :
    /\ onChange' = IF onChange # Null THEN onChange
                   ELSE IF cb.k # "function" THEN Null ELSE cb
    /\ calls' = <<>>
    /\ last' = OpRecord("onChange", cb, Undefined)
    /\ UNCHANGED <<rgba, hsla, steps, inp, out, pc>>

\* onChange = callbackfn
SetOnChange == \E cb \in OnChangeInputs :
    /\ onChange' = IF cb.k # "function" THEN Null ELSE cb
    /\ calls' = <<>>
    /\ last' = OpRecord("onChange", cb, Undefined)
    /\ UNCHANGED <<rgba, hsla, steps, inp, out, pc>>

Next ==
    \/ SetRed \/ SetGreen \/ SetBlue \/ SetAlpha
    \/ SetHue \/ SetSaturation \/ SetLightness
    \/ SetRgb \/ SetHsl \/ SetHex
    \/ Modify
    \/ SetOnChange

Spec == Init /\ [][Next]_vars

(***************************************************************************)
(* parseColor and the constructor on their own: one string is parsed and   *)
(* then a Color is constructed from it.                                    *)
(***************************************************************************)
MaxLen == 3

Alphabet == {"#", "0", "f", "g", " "}

\* the strings over Alphabet of length at most n
RECURSIVE StringsOf(_)
StringsOf(n) ==
    IF n = 0 THEN {<<>>}
    ELSE Only({shorter \cup {Append(s, c) : s \in {x \in shorter : Len(x) = n - 1},
                                           c \in Alphabet} :
               shorter \in {StringsOf(n - 1)}})

\* the keys of the name table
Names == {colorNames[i][1] : i \in 1..Len(colorNames)}

ParseInputs ==
    {Str(s) : s \in StringsOf(MaxLen)} \cup Names
    \cup {S_red_hex, S_notacolor, S_rgba, S_hsl, S_abc,
          Str(<<"r", "g", "b", "(", "1", ",", "2", ")">>),
          Str(<<"r", "g", "b", "(", "1", "0", "0", "0", ",", "2", ",", "3", ")">>),
          Str(<<"h", "s", "l", "(", "1", ",", "2", ",", "3">>),
          Str(<<"R", "E", "D">>)}

\* the part of the state a pure function does not use
NoObject ==
    /\ onChange = Null
    /\ calls = <<>>
    /\ last = [op |-> "none", arg |-> Undefined, type |-> Undefined,
               rgba |-> Undefined, hsla |-> Undefined, onChange |-> Null]
    /\ steps = 0

InitParse ==
    /\ inp \in ParseInputs
    /\ out = Undefined
    /\ pc = "input"
    /\ rgba = Undefined
    /\ hsla = Undefined
    /\ NoObject

\* const [parsed, type] = parseColor(inp)
CallParseColor ==
    /\ pc = "input"
    /\ out' = parseColor(inp)
    /\ pc' = "parsed"
    /\ UNCHANGED <<rgba, hsla, onChange, calls, last, steps, inp>>

\* Color(inp)
Constructs(c) ==
    /\ pc = "parsed"
    /\ rgba' = c[1]
    /\ hsla' = c[2]
    /\ pc' = "constructed"
    /\ UNCHANGED <<onChange, calls, last, steps, inp, out>>

Construct == Constructs(Color(inp))

NextParse == CallParseColor \/ Construct

SpecParse == InitParse /\ [][NextParse]_vars

(***************************************************************************)
(* parseHEX followed by RGBToHEX                                           *)
(***************************************************************************)
HexDigitSample == {"0", "1", "a", "F"}
ByteSample == {<<"0", "0">>, <<"0", "1">>, <<"1", "0">>, <<"a", "b">>, <<"F", "F">>}

\* hex strings of 3, 4, 6 and 8 digits, without the '#'
HexBodies ==
    {<<a, b, c>> : a \in HexDigitSample, b \in HexDigitSample, c \in HexDigitSample}
    \cup {<<a, b, c, d>> : a \in HexDigitSample, b \in HexDigitSample,
                           c \in HexDigitSample, d \in HexDigitSample}
    \cup {x \o y \o z : x \in ByteSample, y \in ByteSample, z \in ByteSample}
    \cup {x \o y \o z \o w : x \in ByteSample, y \in ByteSample,
                             z \in ByteSample, w \in ByteSample}

HexStrings == {Str(b) : b \in HexBodies} \cup {Str(<<"#">> \o b) : b \in HexBodies}

\* what a call that throws leaves in place of a result
Throws(error) == [k |-> "throws", v |-> error]

InitHex ==
    /\ inp \in HexStrings
    /\ out = Undefined
    /\ pc = "input"
    /\ rgba = Undefined
    /\ hsla = Undefined
    /\ NoObject

\* parseHEX(inp)
CallParseHEX ==
    /\ pc = "input"
    /\ out' = parseHEX(inp)
    /\ pc' = "parsed"
    /\ UNCHANGED <<rgba, hsla, onChange, calls, last, steps, inp>>

\* RGBToHEX(...parsed): spreading null throws a TypeError
CallRGBToHEX ==
    /\ pc = "parsed"
    /\ out' = IF isArr(out) THEN RGBToHEX(out.v) ELSE Throws("TypeError")
    /\ pc' = "formatted"
    /\ UNCHANGED <<rgba, hsla, onChange, calls, last, steps, inp>>

NextHex == CallParseHEX \/ CallRGBToHEX

SpecHex == InitHex /\ [][NextHex]_vars

(***************************************************************************)
(* RGBToHSL followed by HSLToRGB                                           *)
(***************************************************************************)
ChannelSample == {0, 1, 2, 15, 16, 127, 128, 129, 200, 254, 255}
AlphaSample == {N(1), Q(1, 2), N(0)}

RGBTuples ==
    {Arr(<<N(r), N(g), N(b), a>>) :
        r \in ChannelSample, g \in ChannelSample, b \in ChannelSample, a \in AlphaSample}

InitConv ==
    /\ inp \in RGBTuples
    /\ out = Undefined
    /\ pc = "input"
    /\ rgba = Undefined
    /\ hsla = Undefined
    /\ NoObject

\* RGBToHSL(...inp)
CallRGBToHSL ==
    /\ pc = "input"
    /\ out' = RGBToHSL(inp.v)
    /\ pc' = "hsl"
    /\ UNCHANGED <<rgba, hsla, onChange, calls, last, steps, inp>>

\* HSLToRGB(...hsl)
CallHSLToRGB ==
    /\ pc = "hsl"
    /\ out' = HSLToRGB(out.v)
    /\ pc' = "back"
    /\ UNCHANGED <<rgba, hsla, onChange, calls, last, steps, inp>>

NextConv == CallRGBToHSL \/ CallHSLToRGB

SpecConv == InitConv /\ [][NextConv]_vars

(***************************************************************************)
(* Properties of the Color object.  last holds the operation that led to   *)
(* the current state, its argument and the closure state it started from.  *)
(***************************************************************************)
ArithmeticOps == {"+", "-", "*", "/"}

\* the last operation wrote the RGB tuple (resp. the HSL tuple) directly
WroteRGB ==
    \/ last.op \in {"red", "green", "blue", "alpha", "rgb", "hex"}
    \/ last.op \in ArithmeticOps /\ last.type # Type("HSL")
WroteHSL ==
    \/ last.op \in {"hue", "saturation", "lightness", "hsl"}
    \/ last.op \in ArithmeticOps /\ last.type = Type("HSL")

\* the last operation altered a stored tuple
Changed == rgba # last.rgba \/ hsla # last.hsla

\* a 4-element tuple of numbers
IsTuple4(x) == isArr(x) /\ Len(x.v) = 4 /\ \A i \in 1..4 : isNum(x.v[i])

Between(x, low, high) == ~Less(x, N(low)) /\ ~Less(N(high), x)

IsRGBTuple(x) ==
    /\ IsTuple4(x)
    /\ \A i \in 1..3 : Between(x.v[i], 0, RGB_RANGE[i])
    /\ Between(x.v[4], 0, ALPHA_RANGE)

IsHSLTuple(x) ==
    /\ IsTuple4(x)
    /\ Between(x.v[1], 0, HSL_RANGE[1]) /\ x.v[1] # N(HSL_RANGE[1])
    /\ Between(x.v[2], 0, HSL_RANGE[2])
    /\ Between(x.v[3], 0, HSL_RANGE[3])
    /\ Between(x.v[4], 0, ALPHA_RANGE)

\* C1: in every state of a Color the two stored tuples are the same colour:
\* after construction one is the conversion of the other, after a change on
\* the RGB side hsl = RGBToHSL(rgb), after a change on the HSL side
\* rgb = HSLToRGB(hsl).
C1_TuplesSameColour ==
    /\ last.op = "Color" => (hsla = RGBToHSL(rgba.v) \/ rgba = HSLToRGB(hsla.v))
    /\ (WroteRGB /\ Changed) => hsla = RGBToHSL(rgba.v)
    /\ (WroteHSL /\ Changed) => rgba = HSLToRGB(hsla.v)

\* C2: a mutating operation whose normalized tuple is pointwise identical to
\* the stored one (the tuple it writes is afterwards what it was before) is
\* a no-op: both stored tuples are unchanged and onChange is not invoked.
C2_IdenticalTupleIsNoOp ==
    /\ (WroteRGB /\ rgba = last.rgba) => (hsla = last.hsla /\ calls = <<>>)
    /\ (WroteHSL /\ hsla = last.hsla) => (rgba = last.rgba /\ calls = <<>>)

\* the one call hue = v makes to the subscriber: after the update, with the
\* new tuples
OneCall == <<[fn |-> last.onChange, args |-> <<rgba, hsla>>, seen |-> <<rgba, hsla>>]>>

\* C3 (first half): hue = v with v mod 360 different from the stored hue
\* sets hsl to [v mod 360, s, l, a] and rgb to HSLToRGB of it and invokes
\* the subscriber exactly once, after the update, with the new tuples; on
\* the colour of '#ff0000', hue = 120 makes hex read '#00ff00'.
C3_HueChanges ==
    (last.op = "hue" /\ isNum(last.arg)) =>
        \A v \in {euclideanModulo(last.arg, N(HSL_RANGE[1]))} :
            v # At(last.hsla, 0) =>
                /\ hsla = Arr(<<v, At(last.hsla, 1), At(last.hsla, 2), At(last.hsla, 3)>>)
                /\ rgba = HSLToRGB(hsla.v)
                /\ calls = (IF last.onChange = Null THEN <<>> ELSE OneCall)
                /\ (inp = S_red_hex /\ steps = 1 /\ last.arg = N(120))
                        => getHex = Str(<<"#", "0", "0", "f", "f", "0", "0">>)

\* C3: the first half, and assigning a hue the colour already has (the same
\* hue assigned again) invokes the subscriber zero times.
C3_HueAssignment ==
    /\ C3_HueChanges
    /\ (last.op = "hue" /\ isNum(last.arg)
            /\ euclideanModulo(last.arg, N(HSL_RANGE[1])) = At(last.hsla, 0))
        => calls = <<>>

\* the component a channel setter is named after
ChannelIndex ==
    [red |-> 0, green |-> 1, blue |-> 2, alpha |-> 3,
     hue |-> 0, saturation |-> 1, lightness |-> 2]

\* C4: assigning a valid in-range number v to red, green, blue or alpha
\* replaces exactly that component of the stored rgb tuple and leaves the
\* other three as they were.
C4_RGBChannelSetter ==
    (/\ last.op \in {"red", "green", "blue", "alpha"}
     /\ IsRGBTuple(last.rgba)
     /\ isNum(last.arg)
     /\ Between(last.arg, 0, IF last.op = "alpha" THEN ALPHA_RANGE ELSE HEX_RANGE))
        => rgba = replaceAtIndex(last.rgba, last.arg, ChannelIndex[last.op])

\* C5: assigning a valid in-range number v to saturation (resp. lightness)
\* replaces exactly component 1 (resp. 2) of the stored hsl tuple; the hue
\* and the other components are as they were.
C5_SaturationLightnessSetter ==
    (/\ last.op \in {"saturation", "lightness"}
     /\ isNum(last.arg)
     /\ Between(last.arg, 0, HSL_RANGE[2]))
        => hsla = replaceAtIndex(last.hsla, last.arg, ChannelIndex[last.op])

\* C9: in every state of a Color both stored tuples are 4-number tuples in
\* range: r, g, b in [0,255], hue in [0,360), saturation and lightness in
\* [0,100], both alphas in [0,1].
C9_TuplesDefinedInRange == IsRGBTuple(rgba) /\ IsHSLTuple(hsla)

\* C9 for the colours that were not constructed from a key of the name table
C9_ExceptNames == ~hasOwnProperty(cssColors, inp) => C9_TuplesDefinedInRange

(***************************************************************************)
(* Properties of parseColor and of the constructor                         *)
(***************************************************************************)
\* s matches none of the RGB, HSL and HEX grammars
NoGrammarMatches(s) ==
    isStr(s) /\ \A key \in {"RGB", "HSL", "HEX"} : ~PatternTest(key, s.v)

\* C6: for a string that is no key of the name table and matches no
\* grammar, parseColor returns (null, null) and the Color constructed from
\* it has rgb equal to the RGB default [0,0,0,1].
C6_UnparseableGivesDefault ==
    (pc # "input" /\ ~hasOwnProperty(cssColors, inp) /\ NoGrammarMatches(inp)) =>
        /\ out = <<Null, Null>>
        /\ pc = "constructed" => rgba = Arr(<<N(0), N(0), N(0), N(1)>>)

\* 'notacolor' was parsed to (null, null) and a Color constructed from it
C6_Witness ==
    /\ pc = "constructed"
    /\ inp = S_notacolor
    /\ NoGrammarMatches(inp)
    /\ out = <<Null, Null>>
    /\ rgba = Arr(<<N(0), N(0), N(0), N(1)>>)

\* C10: for every key of the generated name table parseColor returns a
\* 4-element numeric RGB tuple [r,g,b,a] tagged 'RGB'.
C10_NameGivesRGBTuple ==
    (pc # "input" /\ hasOwnProperty(cssColors, inp)) =>
        /\ out[2] = Type("RGB")
        /\ IsRGBTuple(out[1])

(***************************************************************************)
(* Properties of the hex round trip                                        *)
(***************************************************************************)
\* the digits of s in lower case, each written twice when twice is TRUE
RECURSIVE CanonicalDigits(_, _, _)
CanonicalDigits(s, n, twice) ==
    IF n = 0 THEN <<>>
    ELSE CanonicalDigits(s, n - 1, twice)
            \o (IF twice THEN <<Lower(s[n]), Lower(s[n])>> ELSE <<Lower(s[n])>>)

\* the canonical '#rrggbb' or '#rrggbbaa' form of the hex string s
Canonical(s) ==
    LET expand(digits) ==
            <<"#">> \o CanonicalDigits(digits, Len(digits), Len(digits) \in {3, 4})
    IN  Str(expand(ReplaceFirst(s, "#")))

\* C7: for every hex string of 3, 4, 6 or 8 digits, with or without '#',
\* RGBToHEX(parseHEX(s)) is the canonical form of s in lower case, with every
\* channel byte reproduced.
C7_HexRoundTrip == pc = "formatted" => out = Canonical(inp.v)

(***************************************************************************)
(* Properties of the conversions                                           *)
(***************************************************************************)
\* a and b differ by at most 1
WithinOne(a, b) == ~Less(N(1), MathAbs(Minus(a, b)))

\* C8: for every RGB tuple t with integer channels in [0,255],
\* HSLToRGB(RGBToHSL(t)) rounded per channel differs from t by at most 1 in
\* each of r, g, b and has the alpha of t.
C8_RoundTripWithinOne ==
    pc = "back" =>
        /\ \A i \in 0..2 : WithinOne(MathRound(At(out, i)), At(inp, i))
        /\ At(out, 3) = At(inp, 3)

\* [200,127,16,0.5] went to HSL and came back
C8_Witness ==
    /\ pc = "back"
    /\ inp = Arr(<<N(200), N(127), N(16), Q(1, 2)>>)
    /\ MathRound(At(out, 0)) = N(200)
    /\ MathRound(At(out, 1)) = N(127)
    /\ MathRound(At(out, 2)) = N(16)

(***************************************************************************)
(* Properties of parseColor on strings of the HSL grammar                  *)
(***************************************************************************)
\* the numbers written in a string the HSL pattern matched, in the order
\* they are written
WrittenNumbers(match) ==
    <<parseFloat(Group(match, "r")), parseFloat(Group(match, "g")),
      parseFloat(Group(match, "b")), parseFloat(Group(match, "a"))>>

\* C11: for a string of the HSL grammar that is no key of the name table,
\* parseColor returns HSLArray of the numbers written in the string,
\* tagged 'HSL'.
C11_HSLStringGivesHSLTuple ==
    (pc # "input" /\ isStr(inp) /\ ~hasOwnProperty(cssColors, inp)
        /\ PatternTest("HSL", inp.v)) =>
            /\ out[1] = HSLArray(WrittenNumbers(StrMatch(inp.v, PATTERNS.HSL)))
            /\ out[2] = Type("HSL")

(***************************************************************************)
(* The array builders and RGBToHSL on their own: one argument list is      *)
(* handed to RGBArray, to HSLArray or to RGBToHSL.                         *)
(***************************************************************************)
\* the argument list f(...values) is called with: zero to four values
InitArr ==
    /\ inp \in UNION {[1..n -> {Undefined, NaN, N(-10), N(0), Q(1, 2), N(1),
                                 N(128), N(255), N(300), N(400)}] : n \in 0..4}
    /\ out = Undefined
    /\ pc = "input"
    /\ rgba = Undefined
    /\ hsla = Undefined
    /\ NoObject

\* RGBArray(...inp)
CallRGBArray ==
    /\ pc = "input"
    /\ out' = RGBArray(inp)
    /\ pc' = "RGBArray"
    /\ UNCHANGED <<rgba, hsla, onChange, calls, last, steps, inp>>

\* HSLArray(...inp)
CallHSLArray ==
    /\ pc = "input"
    /\ out' = HSLArray(inp)
    /\ pc' = "HSLArray"
    /\ UNCHANGED <<rgba, hsla, onChange, calls, last, steps, inp>>

\* RGBToHSL(...inp)
CallRGBToHSLOfArgs ==
    /\ pc = "input"
    /\ out' = RGBToHSL(inp)
    /\ pc' = "RGBToHSL"
    /\ UNCHANGED <<rgba, hsla, onChange, calls, last, steps, inp>>

NextArr == CallRGBArray \/ CallHSLArray \/ CallRGBToHSLOfArgs

SpecArr == InitArr /\ [][NextArr]_vars

(***************************************************************************)
(* Properties of the array builders                                        *)
(***************************************************************************)
\* v limited to [0, high], by comparison
Limited(v, high) ==
    IF Less(v, N(0)) THEN N(0) ELSE IF Less(N(high), v) THEN N(high) ELSE v

\* C12: RGBArray(r,g,b,a) is a 4-tuple in which each of r, g, b is 0 when
\* the argument is missing or not a number and otherwise the argument
\* limited to [0,255], and alpha is 1 when missing or not a number and
\* otherwise limited to [0,1]; RGBArray(300,-10,128) = [255,0,128,1].
C12_RGBArrayDefaultsAndClamps ==
    pc = "RGBArray" =>
        /\ isArr(out) /\ Len(out.v) = 4
        /\ \A i \in 0..2 :
            At(out, i) = IF isNum(Arg(inp, i)) THEN Limited(Arg(inp, i), 255) ELSE N(0)
        /\ At(out, 3) = IF isNum(Arg(inp, 3)) THEN Limited(Arg(inp, 3), 1) ELSE N(1)
        /\ inp = <<N(300), N(-10), N(128)>> => out = Arr(<<N(255), N(0), N(128), N(1)>>)

\* RGBArray(300, -10, 128) returned [255,0,128,1]
C12_Witness ==
    /\ pc = "RGBArray"
    /\ inp = <<N(300), N(-10), N(128)>>
    /\ out = Arr(<<N(255), N(0), N(128), N(1)>>)

\* no argument, or every argument explicitly undefined
AllUndefined(values) == \A i \in 1..Len(values) : values[i] = Undefined

\* C13 as stated: HSLArray with no arguments, and with explicitly undefined
\* channels, returns the tuple [0,0,0,1].
C13_HSLArrayDefaultBlank ==
    (pc = "HSLArray" /\ AllUndefined(inp)) => out = Arr(<<N(0), N(0), N(0), N(1)>>)

\* C13 (amended): HSLArray with no arguments returns the HSL default
\* [0,100,0,1], and with explicitly undefined channels it returns the same
\* tuple as with no arguments.
C13_HSLArrayDefault ==
    (pc = "HSLArray" /\ AllUndefined(inp)) =>
        /\ out = Arr(<<N(0), N(100), N(0), N(1)>>)
        /\ out = HSLArray(<<>>)

\* HSLArray(undefined, undefined, undefined) returned [0,100,0,1]
C13_Witness ==
    /\ pc = "HSLArray"
    /\ inp = <<Undefined, Undefined, Undefined>>
    /\ out = Arr(<<N(0), N(100), N(0), N(1)>>)

\* the hue of the tuple t is a number in [0,360)
HueInRange(t) ==
    isArr(t) /\ isNum(At(t, 0)) /\ ~Less(At(t, 0), N(0)) /\ Less(At(t, 0), N(360))

\* C18: the hue HSLArray and RGBToHSL produce is in [0,360) for every
\* input, negative hues and hues of 360 or more being wrapped (also when
\* red is the largest channel and green < blue), and RGBToHSL gives hue 0
\* for [255,0,0,1], 120 for [0,255,0,1] and 240 for [0,0,255,1].
C18_HueInRange ==
    /\ pc \in {"HSLArray", "RGBToHSL"} => HueInRange(out)
    /\ (pc = "HSLArray" /\ Len(inp) > 0 /\ isNum(inp[1])) =>
            \E k \in -2..2 : At(out, 0) = Plus(inp[1], N(360 * k))
    /\ pc = "RGBToHSL" =>
            /\ inp = <<N(255), N(0), N(0), N(1)>> => At(out, 0) = N(0)
            /\ inp = <<N(0), N(255), N(0), N(1)>> => At(out, 0) = N(120)
            /\ inp = <<N(0), N(0), N(255), N(1)>> => At(out, 0) = N(240)

\* RGBToHSL(255, 0, 128): red is the largest channel and green < blue; the
\* hue came out wrapped into [0,360)
C18_Witness ==
    /\ pc = "RGBToHSL"
    /\ inp = <<N(255), N(0), N(128)>>
    /\ HueInRange(out)
    /\ Less(N(180), At(out, 0))

(***************************************************************************)
(* combineCA on its own: inp is the argument list [c1, c2, operator,       *)
(* colorType] of one call.                                                 *)
(***************************************************************************)
InitCombine ==
    /\ inp \in
        LET tuples == {Arr(<<N(10), N(10), N(10), N(1)>>), Arr(<<N(5), N(5), N(5), N(1)>>),
                       Arr(<<N(0), N(0), N(0), N(1)>>),
                       Arr(<<N(300), N(-10), N(128), Q(1, 2)>>),
                       Arr(<<N(400), N(50), N(200), N(2)>>),
                       Arr(<<N(1), N(2)>>), Arr(<<NaN, N(7), Undefined, N(1)>>)}
        IN  (tuples \cup {Undefined, Null}) \X (tuples \cup {Undefined, Str(<<"x">>)})
                \X {"+", "-", "*", "/", "%"} \X {"RGB", "HSL"}
    /\ out = Undefined
    /\ pc = "input"
    /\ rgba = Undefined
    /\ hsla = Undefined
    /\ NoObject

\* combineCA(...inp)
CallCombineCA ==
    /\ pc = "input"
    /\ out' = combineCA(inp[1], inp[2], inp[3], inp[4])
    /\ pc' = "combineCA"
    /\ UNCHANGED <<rgba, hsla, onChange, calls, last, steps, inp>>

SpecCombine == InitCombine /\ [][CallCombineCA]_vars

(***************************************************************************)
(* Properties of combineCA                                                 *)
(***************************************************************************)
\* combineCA was called with two arrays and one of the four operators
Combines ==
    pc = "combineCA" /\ isArr(inp[1]) /\ isArr(inp[2]) /\ inp[3] \in ArithmeticOps

\* the array builder of the space the call names
Builder(values) == IF inp[4] = "HSL" THEN HSLArray(values) ELSE RGBArray(values)

\* a operator b, the division being 0 whenever either operand is 0
Operated(operator, a, b) ==
    CASE operator = "+" -> Plus(a, b)
      [] operator = "-" -> Minus(a, b)
      [] operator = "*" -> Times(a, b)
      [] operator = "/" -> IF IsZero(a) \/ IsZero(b) THEN N(0) ELSE Over(a, b)

\* C14: for arrays A and B and an operator of + - * /, combineCA applies
\* the operator to channels 0..2 only (the division by the safe-divide
\* rule) and the alpha of the result is the builder-normalized alpha of A
\* whatever the alpha of B; [10,10,10,1] / [5,5,5,1] in RGB is [2,2,2,1]
\* and [10,10,10,1] / [0,0,0,1] is [0,0,0,1].
C14_CombinesThreeChannels ==
    Combines =>
        LET base == Builder(inp[1].v)
            channel(i) == IF isNum(At(inp[2], i))
                          THEN Operated(inp[3], At(base, i), At(inp[2], i))
                          ELSE At(base, i)
        IN  /\ out = Builder(<<channel(0), channel(1), channel(2), At(base, 3)>>)
            /\ At(out, 3) = At(base, 3)
            /\ (inp[1] = Arr(<<N(10), N(10), N(10), N(1)>>) /\ inp[3] = "/" /\ inp[4] = "RGB") =>
                    /\ inp[2] = Arr(<<N(5), N(5), N(5), N(1)>>)
                            => out = Arr(<<N(2), N(2), N(2), N(1)>>)
                    /\ inp[2] = Arr(<<N(0), N(0), N(0), N(1)>>)
                            => out = Arr(<<N(0), N(0), N(0), N(1)>>)

\* [300,-10,128,0.5] + [400,50,200,2] in RGB kept the alpha 0.5 of A
C14_Witness ==
    /\ Combines
    /\ inp = <<Arr(<<N(300), N(-10), N(128), Q(1, 2)>>),
               Arr(<<N(400), N(50), N(200), N(2)>>), "+", "RGB">>
    /\ out = Arr(<<N(255), N(50), N(255), Q(1, 2)>>)

\* the tuple t is within the range of the space the call names
InSpaceRange(t) == IF inp[4] = "HSL" THEN IsHSLTuple(t) ELSE IsRGBTuple(t)

\* C19 as stated: for all inputs, an absent or non-array tupleB, an
\* unrecognized operator and an absent tupleA included, the tuple
\* combineCA returns is within the range of the space.
C19_ResultAlwaysInRange == pc = "combineCA" => InSpaceRange(out)

\* C19 (amended): when both operands are arrays and the operator is one of
\* + - * /, the tuple combineCA returns is within the range of the space,
\* also for operand tuples whose channels lie outside the range.
C19_CombinedInRange == Combines => InSpaceRange(out)

\* [400,50,200,2] * [10,10,10,1] in RGB: the operands are out of range and
\* the result is [255,255,255,1]
C19_Witness ==
    /\ Combines
    /\ inp = <<Arr(<<N(400), N(50), N(200), N(2)>>),
               Arr(<<N(10), N(10), N(10), N(1)>>), "*", "RGB">>
    /\ out = Arr(<<N(255), N(255), N(255), N(1)>>)

\* C20: when tupleA is not an array combineCA returns tupleB if that is an
\* array and otherwise the default of the space; when tupleA is an array
\* and tupleB is not an array or the operator is not one of + - * /, it
\* returns tupleA with every component unchanged.
C20_DegradesToIdentity ==
    pc = "combineCA" =>
        /\ ~isArr(inp[1]) =>
                out = IF isArr(inp[2]) THEN inp[2]
                      ELSE IF inp[4] = "HSL" THEN Arr(<<N(0), N(100), N(0), N(1)>>)
                      ELSE Arr(<<N(0), N(0), N(0), N(1)>>)
        /\ (isArr(inp[1]) /\ (~isArr(inp[2]) \/ inp[3] \notin ArithmeticOps)) =>
                out = inp[1]

\* tupleA = [300,-10,128,0.5] with no tupleB came back as it was
C20_Witness ==
    /\ pc = "combineCA"
    /\ inp[1] = Arr(<<N(300), N(-10), N(128), Q(1, 2)>>)
    /\ inp[2] = Undefined
    /\ out = inp[1]

(***************************************************************************)
(* The Color object and what its caller holds.  A Color is constructed     *)
(* and changed as above; then the caller takes a value from it (the array  *)
(* of a getter, an array its subscriber was called with, the Color that    *)
(* clone() or inverted() returns) and writes into what it holds.  out is   *)
(* the value held: from names where it came from, shares names the closure *)
(* variable whose array it is ("none" for an array or a closure of its     *)
(* own), v is its content (for a Color, its [rgba, hsla]) and n counts the *)
(* calls of inverted() that led to it.                                     *)
(***************************************************************************)
Held(from, shares, v, n) ==
    [k |-> "held", from |-> from, shares |-> shares, v |-> v, n |-> n]

\* the caller now holds h; the Color is as it was
Takes(h) ==
    /\ pc = "Color"
    /\ out' = h
    /\ pc' = "held"
    /\ UNCHANGED <<rgba, hsla, onChange, calls, last, steps, inp>>

\* c.rgb and c.hsl: get: () => [...rgba], get: () => [...hsla]
GetRgb == Takes(Held("rgb", "none", rgba, 0))
GetHsl == Takes(Held("hsl", "none", hsla, 0))

\* onChange(rgba, hsla), the last statement of setRGB and setHSL: the
\* subscriber is handed the two arrays of the closure and keeps one
KeepArgument ==
    /\ calls # <<>>
    /\ \/ Takes(Held("onChange", "rgba", calls[1].args[1], 0))
       \/ Takes(Held("onChange", "hsla", calls[1].args[2], 0))

\* c.clone() and c.inverted()
CallClone == Takes(Held("clone", "none", clone(rgba), 0))
CallInverted == Takes(Held("inverted", "none", inverted(rgba), 1))

\* held.inverted() on the Color that c.inverted() returned
CallInvertedOfHeld ==
    /\ pc = "held"
    /\ out.from = "inverted"
    /\ out.n = 1
    /\ out' = Held("inverted", "none", inverted(out.v[1]), 2)
    /\ UNCHANGED <<rgba, hsla, onChange, calls, last, steps, inp, pc>>

\* held[0] = 7 on an array, held.rgb = [7, g, b, a] in effect on a Color:
\* an array that is a closure variable's array changes under that variable
MutateHeld ==
    /\ pc = "held"
    /\ out' = [out EXCEPT !.v = IF out.from \in {"clone", "inverted"}
                                THEN <<replaceAtIndex(out.v[1], N(7), 0), out.v[2]>>
                                ELSE replaceAtIndex(out.v, N(7), 0)]
    /\ rgba' = IF out.shares = "rgba" THEN replaceAtIndex(rgba, N(7), 0) ELSE rgba
    /\ hsla' = IF out.shares = "hsla" THEN replaceAtIndex(hsla, N(7), 0) ELSE hsla
    /\ calls' = <<>>
    /\ last' = OpRecord("mutate", N(7), Undefined)
    /\ pc' = "mutated"
    /\ UNCHANGED <<onChange, steps, inp>>

NextRefs ==
    \/ pc = "Color" /\ (SetHue \/ SetRgb \/ SetHsl \/ SetOnChange)
    \/ GetRgb \/ GetHsl \/ KeepArgument
    \/ CallClone \/ CallInverted \/ CallInvertedOfHeld
    \/ MutateHeld

SpecRefs == Init /\ [][NextRefs]_vars

(***************************************************************************)
(* Properties of what the caller of a Color holds                          *)
(***************************************************************************)
\* C15: writing in place into an array the rgb or hsl getter returned, into
\* an array the subscriber was called with, or into the Color clone() or
\* inverted() returned, never changes what rgb, hsl and hex of the
\* original Color return.
C15_NothingHeldIsShared ==
    pc = "mutated" =>
        /\ rgba = last.rgba
        /\ hsla = last.hsla
        /\ getHex = RGBToHEX(last.rgba.v)

\* C16: in every state of a Color c, c.inverted().inverted() is a colour
\* whose rgb and hsl tuples are those of c.
C16_InvertedTwiceIsSame ==
    (pc = "held" /\ out.from = "inverted" /\ out.n = 2) => out.v = <<rgba, hsla>>

\* C17: a Color holds at most one subscriber.  An assignment to onChange
\* stores the function assigned in place of the previous one, or nothing
\* for a value that is no function; a change of the colour leaves the
\* stored subscriber as it is and calls nobody else, at most once; with
\* nothing stored nobody is called and the onChange getter is undefined.
C17_SingleSubscriber ==
    /\ last.op = "onChange" =>
            /\ onChange = (IF last.arg.k = "function" THEN last.arg ELSE Null)
            /\ getOnChange = (IF last.arg.k = "function" THEN last.arg ELSE Undefined)
            /\ calls = <<>>
    /\ (WroteRGB \/ WroteHSL) =>
            /\ onChange = last.onChange
            /\ Len(calls) <= 1
            /\ \A i \in 1..Len(calls) : calls[i].fn = onChange
    /\ onChange = Null => (calls = <<>> /\ getOnChange = Undefined)

\* g was assigned to onChange while f was stored, and the change of the
\* colour that followed called g, once
C17_Witness ==
    /\ (WroteRGB \/ WroteHSL)
    /\ onChange = Fn("g")
    /\ Len(calls) = 1
    /\ calls[1].fn = Fn("g")

(***************************************************************************)
(* Properties of the rgb= and hsl= setters                                 *)
(***************************************************************************)
\* the components assigned, each one that is missing or not a number
\* replaced by that component of the tuple current
MergedComponents(assigned, current) ==
    [i \in 1..4 |-> IF isNum(At(assigned, i - 1)) THEN At(assigned, i - 1)
                    ELSE At(current, i - 1)]

\* C22: rgb= and hsl= accept partial tuples: a component of the assigned
\* array that is missing or not a number is replaced by the current value
\* of that component of the owning tuple, never by the default of the
\* space, and the owning tuple afterwards is the builder applied to the
\* merged components; assigning a value that is no array, or an empty
\* array, changes nothing and notifies nobody.
C22_SettersAcceptPartialTuples ==
    /\ (last.op \in {"rgb", "hsl"} /\ (~isArr(last.arg) \/ Len(last.arg.v) = 0)) =>
            (rgba = last.rgba /\ hsla = last.hsla /\ calls = <<>>)
    /\ (last.op = "rgb" /\ isArr(last.arg) /\ Len(last.arg.v) > 0) =>
            rgba = RGBArray(MergedComponents(last.arg, last.rgba))
    /\ (last.op = "hsl" /\ isArr(last.arg) /\ Len(last.arg.v) > 0) =>
            hsla = HSLArray(MergedComponents(last.arg, last.hsla))

\* C22 for a Color that was not constructed from a name of the table
C22_ExceptNames == ~hasOwnProperty(cssColors, inp) => C22_SettersAcceptPartialTuples


(***************************************************************************)
(* parseHEX of hex strings of every digit count, with and without white    *)
(* space around them                                                       *)
(***************************************************************************)
MaxDigits == 8

\* w1 + ('#')? + digits + w2, of 1 to MaxDigits digits
InitPad ==
    /\ inp \in {Str(w1 \o h \o b \o w2) :
                    w1 \in {<<>>, <<" ">>, <<" ", " ">>},
                    h \in {<<>>, <<"#">>},
                    b \in UNION {[1..n -> {"1", "F"}] : n \in 1..MaxDigits},
                    w2 \in {<<>>, <<" ">>, <<"\t">>}}
    /\ out = Undefined
    /\ pc = "input"
    /\ rgba = Undefined
    /\ hsla = Undefined
    /\ NoObject

SpecPad == InitPad /\ [][CallParseHEX]_vars

\* s without the white space before and after it
RECURSIVE Trimmed(_)
Trimmed(s) ==
    IF s = <<>> THEN s
    ELSE IF IsWs(s[1]) THEN Trimmed(Tail(s))
    ELSE IF IsWs(s[Len(s)]) THEN Trimmed(SubSeq(s, 1, Len(s) - 1))
    ELSE s

\* the hex digits of s, in order
HexDigitsOf(s) == SelectSeq(s, LAMBDA c : ~IsWs(c) /\ c # "#")

\* the tuple of a four-digit string: every digit doubled, the fourth as alpha
FourDigitTuple(d) ==
    RGBArray(<<parseInt16(<<d[1], d[1]>>), parseInt16(<<d[2], d[2]>>),
               parseInt16(<<d[3], d[3]>>),
               map(parseInt16(<<d[4], d[4]>>), N(0), N(HEX_RANGE), N(0), N(ALPHA_RANGE), FALSE)>>)

\* C21: of the strings that are an optional '#' followed by hex digits,
\* parseHEX accepts exactly those of 3, 4, 6 or 8 digits and returns null for
\* every other digit count; a 4-digit string gives every digit doubled, the
\* fourth as alpha remapped from [0,255] to [0,1].
C21_AcceptsThreeFourSixEight ==
    (pc = "parsed" /\ Trimmed(inp.v) = inp.v) =>
        /\ (out # Null) <=> (Len(HexDigitsOf(inp.v)) \in {3, 4, 6, 8})
        /\ Len(HexDigitsOf(inp.v)) = 4 => out = FourDigitTuple(HexDigitsOf(inp.v))

\* the digit counts the pattern admits: 3 or 6, or either followed by 2 more
C21_AcceptsThreeFiveSixEight ==
    pc = "parsed" => ((out # Null) <=> (Len(HexDigitsOf(inp.v)) \in {3, 5, 6, 8}))

\* C23: white space around an accepted hex string does not change the
\* parse: parseHEX(w1 + s + w2) equals parseHEX(s).
C23_PaddingDoesNotChangeParse ==
    (pc = "parsed" /\ parseHEX(Str(Trimmed(inp.v))) # Null) =>
        out = parseHEX(Str(Trimmed(inp.v)))

====
